---- MODULE Spec2Model ----
(***************************************************************************)
(* Model of src/Kill.py: DorkParser.run submits one process_dork call per  *)
(* dork to a ThreadPoolExecutor, a daemon thread runs display_stats, and   *)
(* process_dork retries an attempt (driver setup, page fetches, driver     *)
(* quit) while retries < max_retries, recording the dork in the results    *)
(* file or in the errors file.                                             *)
(*                                                                         *)
(* Environment: setup_chrome_driver returns a driver or None (it catches   *)
(* every exception, lines 83-156); get_search_results returns a list of    *)
(* links, possibly empty (it catches every exception, lines 234-284);      *)
(* driver.quit() is a call into the browser library and may raise; file    *)
(* writes succeed; Ctrl+C arrives in the main thread while it is inside    *)
(* the try block of run (lines 424-438).                                   *)
(***************************************************************************)
EXTENDS Integers, Sequences, FiniteSets, TLC

\* ---- bounds of the model
MaxDorks == 2
MaxThreads == 2
MaxPages == 1
MaxLinks == 1
MaxElapsed == 2

\* ---- program constants
\* process_dork(self, dork, pages, max_retries=3); run never passes another value
max_retries == 3

\* self.search_engines.keys(), in insertion order
search_engines == <<"google", "bing", "duckduckgo", "yahoo">>

VARIABLES
    main_pc,         \* position of the main thread in run
    dorks,           \* the list load_dorks returned
    pages,           \* int(input(...)) at line 408
    threads,         \* int(input(...)) at line 409
    cancelled,       \* a KeyboardInterrupt was raised in the main thread
    total_dorks,     \* stats['total_dorks']
    checked_dorks,   \* stats['checked_dorks']
    urls_parsed,     \* stats['urls_parsed']
    error_dorks,     \* stats['error_dorks']
    retry_dorks,     \* stats['retry_dorks']
    working_engines, \* stats['working_engines']
    results_file,    \* lines of results.txt
    errors_file,     \* lines of errors.txt
    retries_file,    \* lines of retries.txt
    lock,            \* self.lock: 0 when free, else the dork whose call holds it
    stats_pc,        \* position of the display_stats thread
    queue,           \* the executor's work queue (FIFO)
    yielded,         \* futures as_completed has handed to the loop of run
    pc,              \* per dork: position of its process_dork call
    retries,         \* per dork: local variable retries
    all_links,       \* per dork: local variable all_links
    links,           \* per dork: local variable links (last page fetched)
    page,            \* per dork: local variable page
    engines_tried,   \* per dork: local variable engines_tried
    result,          \* per dork: how the future ended
    attempts,        \* per dork: iterations of the while loop entered (history)
    written,         \* per dork: f.write calls made for its block, lines 333-335
    errored,         \* per dork: an attempt had no driver or raised (history)
    trace,           \* per dork: how each finished attempt ended and the
                     \* number of links it fetched (history)
    record_trace,    \* whether the history trace is kept in this behaviour
    est_time_str     \* the estimated time display_stats printed last

vars == <<main_pc, dorks, pages, threads, cancelled, total_dorks, checked_dorks,
          urls_parsed, error_dorks, retry_dorks, working_engines, results_file,
          errors_file, retries_file, lock, stats_pc, queue, yielded, pc, retries,
          all_links, links, page, engines_tried, result, attempts, written, errored,
          trace, record_trace, est_time_str>>

mainVars == <<main_pc, dorks, pages, threads, cancelled, total_dorks, yielded,
              record_trace, est_time_str>>
statVars == <<checked_dorks, urls_parsed, error_dorks, retry_dorks, working_engines>>
fileVars == <<results_file, errors_file, retries_file>>
localVars == <<retries, all_links, links, page, engines_tried, result, attempts, written,
               errored, trace>>

DorkIds == 1..MaxDorks

\* the dorks of this run
Dorks == 1..Len(dorks)

\* a file left by a previous run
OldFile == << <<"old", 0>> >>

\* f.write(f"\n# Dork: {dork}\n")
Header(d) == <<"dork", d>>

\* one link found for dork d
Link(d) == <<"link", d>>

\* f.write(f"{dork}\n") into the errors file
ErrorLine(d) == <<"error", d>>

\* calls of process_dork that a worker thread is running
InFlight == {d \in DorkIds : pc[d] \notin {"unsubmitted", "queued", "done"}}

\* self.stats['checked_dorks'] + self.stats['error_dorks'], line 385
Completed == checked_dorks + error_dorks

\* the state after DorkParser() is constructed
StartState ==
    /\ main_pc = "load"
    /\ dorks = <<>>
    /\ pages = 0
    /\ threads = 0
    /\ cancelled = FALSE
    /\ total_dorks = 0
    /\ checked_dorks = 0
    /\ urls_parsed = 0
    /\ error_dorks = 0
    /\ retry_dorks = 0
    /\ working_engines = <<>>
    /\ results_file = OldFile
    /\ errors_file = OldFile
    /\ retries_file = OldFile
    /\ lock = 0
    /\ stats_pc = "idle"
    /\ queue = <<>>
    /\ yielded = {}
    /\ pc = [d \in DorkIds |-> "unsubmitted"]
    /\ retries = [d \in DorkIds |-> 0]
    /\ all_links = [d \in DorkIds |-> <<>>]
    /\ links = [d \in DorkIds |-> <<>>]
    /\ page = [d \in DorkIds |-> 0]
    /\ engines_tried = [d \in DorkIds |-> <<>>]
    /\ result = [d \in DorkIds |-> "none"]
    /\ attempts = [d \in DorkIds |-> 0]
    /\ written = [d \in DorkIds |-> 0]
    /\ errored = [d \in DorkIds |-> FALSE]
    /\ trace = [d \in DorkIds |-> <<>>]
    /\ est_time_str = <<>>

Init == StartState /\ record_trace = FALSE

\* the same start, with the history of the attempts kept
TraceInit == StartState /\ record_trace = TRUE

\* ------------------------------------------------------------------ run

\* mutant of LoadDorks: run goes on with an empty list of dorks
LoadDorksNoReturn ==
    /\ main_pc = "load"
    /\ \E n \in 0..MaxDorks :
        /\ dorks' = [i \in 1..n |-> i]
        /\ main_pc' = "config"
        /\ total_dorks' = n
    /\ UNCHANGED <<record_trace, est_time_str, pages, threads, cancelled, yielded, statVars, fileVars, lock,
                   stats_pc, queue, pc, localVars>>

\* lines 396-404: load the dorks; return when there are none
LoadDorks ==
    /\ main_pc = "load"
    /\ \E n \in 0..MaxDorks :
        /\ dorks' = [i \in 1..n |-> i]
        /\ IF n = 0
           THEN main_pc' = "returned" /\ UNCHANGED total_dorks
           ELSE main_pc' = "config" /\ total_dorks' = n
    /\ UNCHANGED <<record_trace, est_time_str, pages, threads, cancelled, yielded, statVars, fileVars, lock,
                   stats_pc, queue, pc, localVars>>

\* lines 408-417: read pages and threads, remove the files of a previous run
Configure ==
    /\ main_pc = "config"
    /\ \E p \in 0..MaxPages, th \in 0..MaxThreads :
        /\ pages' = p
        /\ threads' = th
    /\ results_file' = <<>>
    /\ errors_file' = <<>>
    /\ retries_file' = <<>>
    /\ main_pc' = "start_stats"
    /\ UNCHANGED <<record_trace, est_time_str, dorks, cancelled, total_dorks, yielded, statVars, lock, stats_pc,
                   queue, pc, localVars>>

\* lines 420-421: start the display_stats thread
StartStats ==
    /\ main_pc = "start_stats"
    /\ stats_pc' = "render"
    /\ main_pc' = "executor"
    /\ UNCHANGED <<record_trace, est_time_str, dorks, pages, threads, cancelled, total_dorks, yielded, statVars,
                   fileVars, lock, queue, pc, localVars>>

\* line 425: ThreadPoolExecutor(max_workers=threads) raises ValueError when
\* threads <= 0; run does not catch it
CreateExecutor ==
    /\ main_pc = "executor"
    /\ main_pc' = IF threads < 1 THEN "crashed" ELSE "submit"
    /\ UNCHANGED <<record_trace, est_time_str, dorks, pages, threads, cancelled, total_dorks, yielded, statVars,
                   fileVars, lock, stats_pc, queue, pc, localVars>>

\* the next dork the comprehension of lines 426-429 submits
NextToSubmit == CHOOSE d \in Dorks : pc[d] = "unsubmitted" /\
                    \A e \in Dorks : e < d => pc[e] # "unsubmitted"

\* lines 426-429: executor.submit(self.process_dork, dork, pages)
Submit ==
    /\ main_pc = "submit"
    /\ LET d == NextToSubmit IN
        /\ pc' = [pc EXCEPT ![d] = "queued"]
        /\ queue' = Append(queue, d)
        /\ main_pc' = IF d = Len(dorks) THEN "as_completed" ELSE "submit"
    /\ UNCHANGED <<record_trace, est_time_str, dorks, pages, threads, cancelled, total_dorks, yielded, statVars,
                   fileVars, lock, stats_pc, localVars>>

\* lines 431-436: as_completed yields a finished future; future.result() is
\* called and an exception it raises is logged
Collect(d) ==
    /\ main_pc = "as_completed"
    /\ d \in Dorks
    /\ pc[d] = "done"
    /\ d \notin yielded
    /\ yielded' = yielded \cup {d}
    /\ UNCHANGED <<record_trace, est_time_str, main_pc, dorks, pages, threads, cancelled, total_dorks, statVars,
                   fileVars, lock, stats_pc, queue, pc, localVars>>

\* line 425, leaving the with block after the loop: shutdown(wait=True)
ExitPool ==
    /\ main_pc = "as_completed"
    /\ yielded = Dorks
    /\ main_pc' = "final"
    /\ UNCHANGED <<record_trace, est_time_str, dorks, pages, threads, cancelled, total_dorks, yielded, statVars,
                   fileVars, lock, stats_pc, queue, pc, localVars>>

\* KeyboardInterrupt raised in the main thread inside the with block
\* (lines 425-436): the with block is left through __exit__
Interrupt ==
    /\ main_pc \in {"submit", "as_completed"}
    /\ cancelled' = TRUE
    /\ main_pc' = "shutdown"
    /\ UNCHANGED <<record_trace, est_time_str, dorks, pages, threads, total_dorks, yielded, statVars, fileVars,
                   lock, stats_pc, queue, pc, localVars>>

\* line 425, __exit__ with the KeyboardInterrupt pending: shutdown(wait=True)
\* joins the worker threads, which first drain the work queue; then lines
\* 438-439
Shutdown ==
    /\ main_pc = "shutdown"
    /\ \A d \in DorkIds : pc[d] \in {"unsubmitted", "done"}
    /\ main_pc' = "final"
    /\ UNCHANGED <<record_trace, est_time_str, dorks, pages, threads, cancelled, total_dorks, yielded, statVars,
                   fileVars, lock, stats_pc, queue, pc, localVars>>

\* lines 441-450: print the final results and return
Final ==
    /\ main_pc = "final"
    /\ main_pc' = "returned"
    /\ UNCHANGED <<record_trace, est_time_str, dorks, pages, threads, cancelled, total_dorks, yielded, statVars,
                   fileVars, lock, stats_pc, queue, pc, localVars>>

\* --------------------------------------------------------- process_dork

\* mutant of StartTask: a worker takes any queued call, not the oldest
StartTaskAnyQueued(d) ==
    /\ pc[d] = "queued"
    /\ Cardinality(InFlight) < threads
    /\ queue' = SelectSeq(queue, LAMBDA x : x # d)
    /\ pc' = [pc EXCEPT ![d] = "loop"]
    /\ retries' = [retries EXCEPT ![d] = 0]
    /\ all_links' = [all_links EXCEPT ![d] = <<>>]
    /\ UNCHANGED <<mainVars, statVars, fileVars, lock, stats_pc, links, page,
                   engines_tried, result, attempts, written, errored, trace>>

\* mutant of StartTask: a worker is found for every queued call, whatever
\* the number of calls under way
StartTaskNoLimit(d) ==
    /\ queue # <<>>
    /\ d = Head(queue)
    /\ queue' = Tail(queue)
    /\ pc' = [pc EXCEPT ![d] = "loop"]
    /\ retries' = [retries EXCEPT ![d] = 0]
    /\ all_links' = [all_links EXCEPT ![d] = <<>>]
    /\ UNCHANGED <<mainVars, statVars, fileVars, lock, stats_pc, links, page,
                   engines_tried, result, attempts, written, errored, trace>>

\* a worker thread of the pool takes the head of the work queue and calls
\* process_dork (lines 286-289); the pool runs at most max_workers calls at a
\* time
StartTask(d) ==
    /\ queue # <<>>
    /\ d = Head(queue)
    /\ Cardinality(InFlight) < threads
    /\ queue' = Tail(queue)
    /\ pc' = [pc EXCEPT ![d] = "loop"]
    /\ retries' = [retries EXCEPT ![d] = 0]
    /\ all_links' = [all_links EXCEPT ![d] = <<>>]
    /\ UNCHANGED <<mainVars, statVars, fileVars, lock, stats_pc, links, page,
                   engines_tried, result, attempts, written,
                   errored, trace>>

RECURSIVE LinksIn(_)
\* the number of links the attempts of a trace fetched
LinksIn(tr) == IF tr = <<>> THEN 0 ELSE tr[1][2] + LinksIn(Tail(tr))

\* the links the attempt of dork d that is under way has fetched
AttemptLinks(d) == Len(all_links[d]) - LinksIn(trace[d])

\* trace with the end of an attempt of dork d added, when the history is kept
Recorded(d, kind) ==
    IF record_trace
    THEN [trace EXCEPT ![d] = Append(@, <<kind, AttemptLinks(d)>>)]
    ELSE trace

\* line 291: while retries < max_retries
LoopCondition(d) == retries[d] < max_retries

\* where the engine loop goes after lines 308-309: the page loop of line 311,
\* or past it when range(pages) is empty
AfterEngine == IF pages > 0 THEN "fetch" ELSE "quit"

\* lines 291-302: enter the loop body; setup_chrome_driver returns a driver
BeginAttempt(d) ==
    /\ pc[d] = "loop"
    /\ LoopCondition(d)
    /\ attempts' = [attempts EXCEPT ![d] = @ + 1]
    /\ engines_tried' = [engines_tried EXCEPT ![d] = <<>>]
    /\ pc' = [pc EXCEPT ![d] = "engine_check"]
    /\ UNCHANGED <<mainVars, statVars, fileVars, lock, stats_pc, queue, retries,
                   all_links, links, page, result,
                   errored, trace, written>>

\* mutant of SetupFails: a retried attempt is counted in stats['retry_dorks']
SetupFailsCountsRetry(d) ==
    /\ pc[d] = "loop"
    /\ LoopCondition(d)
    /\ attempts' = [attempts EXCEPT ![d] = @ + 1]
    /\ retries' = [retries EXCEPT ![d] = @ + 1]
    /\ errored' = [errored EXCEPT ![d] = TRUE]
    /\ trace' = Recorded(d, "nodriver")
    /\ retry_dorks' = retry_dorks + 1
    /\ UNCHANGED <<mainVars, checked_dorks, urls_parsed, error_dorks, working_engines,
                   fileVars, lock, stats_pc, queue, pc,
                   all_links, links, page, engines_tried, result, written>>

\* lines 291-302: enter the loop body; setup_chrome_driver returns None:
\* retries += 1; continue
SetupFails(d) ==
    /\ pc[d] = "loop"
    /\ LoopCondition(d)
    /\ attempts' = [attempts EXCEPT ![d] = @ + 1]
    /\ retries' = [retries EXCEPT ![d] = @ + 1]
    /\ errored' = [errored EXCEPT ![d] = TRUE]
    /\ trace' = Recorded(d, "nodriver")
    /\ UNCHANGED <<mainVars, statVars, fileVars, lock, stats_pc, queue, pc,
                   all_links, links, page, engines_tried, result, written>>

\* the engine of the first iteration of the loop of line 306; the body of
\* its try raises nothing (get_search_results catches every exception) and
\* ends in the break of line 319, so no later iteration runs
Engine == search_engines[1]

\* True when engine is in the list stats['working_engines']
InList(engine, list) == \E i \in 1..Len(list) : list[i] = engine

\* line 308: if engine not in self.stats['working_engines'] (no lock held)
EngineCheck(d) ==
    /\ pc[d] = "engine_check"
    /\ pc' = [pc EXCEPT ![d] = IF InList(Engine, working_engines)
                                THEN AfterEngine ELSE "engine_append"]
    /\ page' = [page EXCEPT ![d] = 0]
    /\ UNCHANGED <<mainVars, statVars, fileVars, lock, stats_pc, queue, retries,
                   all_links, links, engines_tried, result, attempts, written,
                   errored, trace>>

\* line 309: self.stats['working_engines'].append(engine) (no lock held)
EngineAppend(d) ==
    /\ pc[d] = "engine_append"
    /\ working_engines' = Append(working_engines, Engine)
    /\ pc' = [pc EXCEPT ![d] = AfterEngine]
    /\ UNCHANGED <<mainVars, checked_dorks, urls_parsed, error_dorks, retry_dorks,
                   fileVars, lock, stats_pc, queue, localVars>>

\* the lists of links get_search_results can return for dork d
PageResults(d) == {[i \in 1..k |-> Link(d)] : k \in 0..MaxLinks}

\* lines 312-313: links = self.get_search_results(...); all_links.extend(links)
Fetch(d) ==
    /\ pc[d] = "fetch"
    /\ \E ls \in PageResults(d) :
        /\ links' = [links EXCEPT ![d] = ls]
        /\ all_links' = [all_links EXCEPT ![d] = @ \o ls]
    /\ pc' = [pc EXCEPT ![d] = "count"]
    /\ UNCHANGED <<mainVars, statVars, fileVars, lock, stats_pc, queue, retries,
                   page, engines_tried, result, attempts, written,
                   errored, trace>>

\* mutant of UrlsParsedAfter: one per page fetched instead of one per link
UrlsParsedAfterPerPage(d) == urls_parsed + 1

\* line 316: the value self.stats['urls_parsed'] += len(links) stores
UrlsParsedAfter(d) == urls_parsed + Len(links[d])

\* lines 315-316, then the next page of the loop of line 311
CountUrls(d) ==
    /\ pc[d] = "count"
    /\ lock = 0
    /\ urls_parsed' = UrlsParsedAfter(d)
    /\ page' = [page EXCEPT ![d] = @ + 1]
    /\ pc' = [pc EXCEPT ![d] = IF page[d] + 1 < pages THEN "fetch" ELSE "quit"]
    /\ UNCHANGED <<mainVars, checked_dorks, error_dorks, retry_dorks,
                   working_engines, fileVars, lock, stats_pc, queue, retries,
                   all_links, links, engines_tried, result, attempts, written,
                   errored, trace>>

\* mutant of QuitReturns: the shared counter urls_parsed decides instead of
\* the list all_links of the call
QuitReturnsSharedCount(d) ==
    /\ pc[d] = "quit"
    /\ engines_tried' = [engines_tried EXCEPT ![d] = Append(@, Engine)]
    /\ IF urls_parsed > 0
       THEN /\ pc' = [pc EXCEPT ![d] = "save_lock"]
            /\ UNCHANGED retries
       ELSE /\ pc' = [pc EXCEPT ![d] = "loop"]
            /\ retries' = [retries EXCEPT ![d] = @ + 1]
    /\ trace' = Recorded(d, "returned")
    /\ UNCHANGED <<mainVars, statVars, fileVars, lock, stats_pc, queue, all_links,
                   links, page, result, attempts, written, errored>>

\* lines 318-340: engines_tried.append(engine); break; driver.quit() returns;
\* with links go on to save them, without links retries += 1
QuitReturns(d) ==
    /\ pc[d] = "quit"
    /\ engines_tried' = [engines_tried EXCEPT ![d] = Append(@, Engine)]
    /\ IF all_links[d] # <<>>
       THEN /\ pc' = [pc EXCEPT ![d] = "save_lock"]
            /\ UNCHANGED retries
       ELSE /\ pc' = [pc EXCEPT ![d] = "loop"]
            /\ retries' = [retries EXCEPT ![d] = @ + 1]
    /\ trace' = Recorded(d, "returned")
    /\ UNCHANGED <<mainVars, statVars, fileVars, lock, stats_pc, queue, all_links,
                   links, page, result, attempts, written,
                   errored>>

\* lines 327, 342-346: driver.quit() raises; the handler does retries += 1 and
\* calls driver.quit() again, which returns or raises; an exception raised
\* in the handler leaves process_dork
QuitRaises(d) ==
    /\ pc[d] = "quit"
    /\ engines_tried' = [engines_tried EXCEPT ![d] = Append(@, Engine)]
    /\ retries' = [retries EXCEPT ![d] = @ + 1]
    /\ \E raisesAgain \in BOOLEAN :
        IF raisesAgain
        THEN /\ pc' = [pc EXCEPT ![d] = "done"]
             /\ result' = [result EXCEPT ![d] = "exception"]
             /\ trace' = Recorded(d, "raised_twice")
        ELSE /\ pc' = [pc EXCEPT ![d] = "loop"]
             /\ trace' = Recorded(d, "raised")
             /\ UNCHANGED result
    /\ errored' = [errored EXCEPT ![d] = TRUE]
    /\ UNCHANGED <<mainVars, statVars, fileVars, lock, stats_pc, queue, all_links,
                   links, page, attempts, written>>

\* mutant of SaveAcquire: the block is written without taking the lock
SaveAcquireNoLock(d) ==
    /\ pc[d] = "save_lock"
    /\ pc' = [pc EXCEPT ![d] = "save_write"]
    /\ UNCHANGED <<mainVars, statVars, fileVars, lock, stats_pc, queue, localVars>>

\* line 331: with self.lock
SaveAcquire(d) ==
    /\ pc[d] = "save_lock"
    /\ lock = 0
    /\ lock' = d
    /\ pc' = [pc EXCEPT ![d] = "save_write"]
    /\ UNCHANGED <<mainVars, statVars, fileVars, stats_pc, queue, localVars>>

\* the lines of the block of dork d in the results file: lines 333-335
Block(d) == <<Header(d)>> \o all_links[d]

\* lines 332-335: one f.write into the results file, of the header of the
\* dork (line 333) or of its next link (line 335); after the last link the
\* file is closed
SaveWrite(d) ==
    /\ pc[d] = "save_write"
    /\ results_file' = Append(results_file, Block(d)[written[d] + 1])
    /\ written' = [written EXCEPT ![d] = @ + 1]
    /\ pc' = [pc EXCEPT ![d] = IF written[d] + 1 = Len(Block(d))
                                THEN "save_count" ELSE "save_write"]
    /\ UNCHANGED <<mainVars, statVars, errors_file, retries_file, lock, stats_pc,
                   queue, retries, all_links, links, page, engines_tried, result,
                   attempts, errored, trace>>

\* lines 337-338: self.stats['checked_dorks'] += 1; release; return True
SaveCount(d) ==
    /\ pc[d] = "save_count"
    /\ checked_dorks' = checked_dorks + 1
    /\ lock' = 0
    /\ result' = [result EXCEPT ![d] = "True"]
    /\ pc' = [pc EXCEPT ![d] = "done"]
    /\ UNCHANGED <<mainVars, urls_parsed, error_dorks, retry_dorks, working_engines,
                   fileVars, stats_pc, queue, retries, all_links, links, page,
                   engines_tried, attempts, written,
                   errored, trace>>

\* lines 291, 349: the loop ends with the retries used up; with self.lock
FailAcquire(d) ==
    /\ pc[d] = "loop"
    /\ ~LoopCondition(d)
    /\ lock = 0
    /\ lock' = d
    /\ pc' = [pc EXCEPT ![d] = "fail_record"]
    /\ UNCHANGED <<mainVars, statVars, fileVars, stats_pc, queue, localVars>>

\* mutant of FailRecord: a failed dork is counted as checked as well
FailRecordAlsoChecked(d) ==
    /\ pc[d] = "fail_record"
    /\ error_dorks' = error_dorks + 1
    /\ checked_dorks' = checked_dorks + 1
    /\ errors_file' = Append(errors_file, ErrorLine(d))
    /\ lock' = 0
    /\ result' = [result EXCEPT ![d] = "False"]
    /\ pc' = [pc EXCEPT ![d] = "done"]
    /\ UNCHANGED <<mainVars, urls_parsed, retry_dorks, working_engines,
                   results_file, retries_file, stats_pc, queue, retries,
                   all_links, links, page, engines_tried, attempts, written, errored,
                   trace>>

\* lines 350-354: error_dorks += 1; append the dork to the errors file;
\* release; return False
FailRecord(d) ==
    /\ pc[d] = "fail_record"
    /\ error_dorks' = error_dorks + 1
    /\ errors_file' = Append(errors_file, ErrorLine(d))
    /\ lock' = 0
    /\ result' = [result EXCEPT ![d] = "False"]
    /\ pc' = [pc EXCEPT ![d] = "done"]
    /\ UNCHANGED <<mainVars, checked_dorks, urls_parsed, retry_dorks,
                   working_engines, results_file, retries_file, stats_pc, queue,
                   retries, all_links, links, page, engines_tried, attempts, written,
                   errored, trace>>

\* -------------------------------------------------------- display_stats

\* line 367: est_time_str = "Calculating..."
NoEstimate == <<"Calculating...">>

\* line 365: str(timedelta(seconds=int(estimated_time)))
Seconds(n) == <<"seconds", n>>

\* lines 361-367: the estimated time, elapsed seconds after start_time
EstimatedTime(elapsed) ==
    IF checked_dorks > 0
    THEN Seconds(((total_dorks - checked_dorks) * elapsed) \div checked_dorks)
    ELSE NoEstimate

\* lines 359-381: read the stats and print them
Render ==
    /\ stats_pc = "render"
    /\ \E elapsed \in 1..MaxElapsed : est_time_str' = EstimatedTime(elapsed)
    /\ stats_pc' = "sleep"
    /\ UNCHANGED <<main_pc, dorks, pages, threads, cancelled, total_dorks, yielded,
                   record_trace, statVars, fileVars, lock, queue, pc, localVars>>

\* line 385: the condition that ends the loop
AllChecked == Completed >= total_dorks

\* lines 383-386: time.sleep(5); break when every dork is checked or failed
Wake ==
    /\ stats_pc = "sleep"
    /\ stats_pc' = IF AllChecked THEN "done" ELSE "render"
    /\ UNCHANGED <<mainVars, statVars, fileVars, lock, queue, pc, localVars>>

\* ------------------------------------------------------- specifications

\* the steps of run when no KeyboardInterrupt is raised
Uninterrupted ==
    \/ LoadDorks
    \/ Configure
    \/ StartStats
    \/ CreateExecutor
    \/ Submit
    \/ \E d \in DorkIds : Collect(d)
    \/ ExitPool
    \/ Final

Main ==
    \/ Uninterrupted
    \/ Shutdown

Worker(d) ==
    \/ StartTask(d)
    \/ BeginAttempt(d)
    \/ SetupFails(d)
    \/ EngineCheck(d)
    \/ EngineAppend(d)
    \/ Fetch(d)
    \/ CountUrls(d)
    \/ QuitReturns(d)
    \/ QuitRaises(d)
    \/ SaveAcquire(d)
    \/ SaveWrite(d)
    \/ SaveCount(d)
    \/ FailAcquire(d)
    \/ FailRecord(d)

Reporter == Render \/ Wake

Next ==
    \/ Main
    \/ Interrupt
    \/ \E d \in DorkIds : Worker(d)
    \/ Reporter

Spec == Init /\ [][Next]_vars

\* a run that is not interrupted; display_stats, which only reads, left out
TraceNext ==
    \/ Uninterrupted
    \/ \E d \in DorkIds : Worker(d)

\* the uninterrupted runs, with the history of the attempts kept
TraceSpec == TraceInit /\ [][TraceNext]_vars

\* the threads are scheduled fairly; the user need not press Ctrl+C
FairSpec ==
    /\ Spec
    /\ WF_vars(Main)
    /\ \A d \in DorkIds : WF_vars(Worker(d))
    /\ WF_vars(Reporter)

\* --------------------------------------------------------------- claims

\* dorks handed to the executor
Submitted == {d \in Dorks : pc[d] # "unsubmitted"}

\* dorks whose call returned True, and dorks whose call returned False
Succeeded == {d \in DorkIds : result[d] = "True"}
Failed == {d \in DorkIds : result[d] = "False"}

InResults(d) == \E i \in 1..Len(results_file) : results_file[i] = Header(d)
InErrors(d) == \E i \in 1..Len(errors_file) : errors_file[i] = ErrorLine(d)

RECURSIVE SumLinks(_)
\* the number of links in the lists all_links of the dorks in S
SumLinks(S) ==
    IF S = {} THEN 0
    ELSE LET d == CHOOSE x \in S : TRUE
         IN  Len(all_links[d]) + SumLinks(S \ {d})

RECURSIVE SumUncounted(_)
\* links of a page fetched at line 312 and not yet counted at line 316
SumUncounted(S) ==
    IF S = {} THEN 0
    ELSE LET d == CHOOSE x \in S : TRUE
         IN  (IF pc[d] = "count" THEN Len(links[d]) ELSE 0) + SumUncounted(S \ {d})

\* C1: once run has returned, every submitted dork has exactly one terminal
\* outcome: it is in the results file (success) or in the errors file
\* (failure), never both and never neither.
C1_ExactlyOneOutcome ==
    main_pc = "returned" =>
        \A d \in Submitted :
            /\ InResults(d) \/ InErrors(d)
            /\ ~(InResults(d) /\ InErrors(d))
            /\ InResults(d) <=> result[d] = "True"
            /\ InErrors(d) <=> result[d] = "False"

\* C2: in every reachable state completed == succeeded + failed, where
\* succeeded is checked_dorks, the number of calls that returned True, failed
\* is error_dorks, the number of calls that returned False, and completed is
\* their sum; and completed <= total.
C2_CompletedInvariant ==
    /\ checked_dorks = Cardinality(Succeeded)
    /\ error_dorks = Cardinality(Failed)
    /\ Completed = Cardinality(Succeeded \cup Failed)
    /\ Completed <= total_dorks

\* two workers, one dork recorded as a success and the other as a failure
C2_Witness ==
    /\ threads = 2
    /\ checked_dorks = 1
    /\ error_dorks = 1
    /\ Completed = total_dorks

\* C3: a dork whose attempts all returned an empty payload is recorded as a
\* failure after exactly max_retries + 1 attempts, and no dork succeeded when
\* every attempt of every dork was empty.
C3_RetriesPlusOne ==
    /\ \A d \in DorkIds :
        (result[d] = "False" /\ ~errored[d] /\ all_links[d] = <<>>) =>
            attempts[d] = max_retries + 1
    /\ (\A d \in DorkIds : all_links[d] = <<>>) => checked_dorks = 0

\* C4: a finished dork is a success exactly when some attempt of it returned
\* links (a failure otherwise), and no attempt is made for a dork after it
\* succeeded.
C4_SuccessIffPayload ==
    \A d \in DorkIds :
        /\ pc[d] = "done" => (result[d] = "True" <=> all_links[d] # <<>>)
        /\ result[d] = "True" => pc[d] = "done"

\* C5: every dork that was submitted has incremented exactly one of
\* checked_dorks and error_dorks exactly once when run has returned, so
\* their sum is the number of submitted dorks.
C5_CountersEqualSubmitted ==
    main_pc = "returned" => checked_dorks + error_dorks = Cardinality(Submitted)

\* C6 (as claimed): in every reachable state urls_parsed is the sum of the
\* payload lengths of the dorks recorded as a success.
C6_OnlySuccessCounts == urls_parsed = SumLinks(Succeeded)

\* C6 (amended): urls_parsed is increased for each page right after the page
\* is fetched, whatever becomes of the attempt: in every reachable state it is
\* the number of links fetched so far by all attempts of all dorks, less the
\* links of a page fetched and not yet counted; so it is at least the sum of
\* the payload lengths of the dorks recorded as a success.
C6_FetchedLinksCounted ==
    /\ urls_parsed = SumLinks(DorkIds) - SumUncounted(DorkIds)
    /\ urls_parsed >= SumLinks(Succeeded)

\* a dork that fetched links is recorded as a failure and no dork succeeded,
\* yet its links are counted
C6_Witness ==
    \E d \in DorkIds :
        /\ result[d] = "False"
        /\ all_links[d] # <<>>
        /\ checked_dorks = 0
        /\ urls_parsed >= Len(all_links[d])

\* C7: process_dork never lets an exception out: every finished call
\* returned True or False.
C7_NoExceptionEscapes ==
    \A d \in DorkIds : pc[d] = "done" => result[d] \in {"True", "False"}

\* C8: a failed attempt (no driver, or an exception) uses up exactly one
\* retry and never ends the call: between attempts the retries used equal
\* the attempts made, and a call that did not succeed ends only with the
\* retries used up.
C8_ErrorIsOneRetry ==
    \A d \in DorkIds :
        /\ pc[d] = "loop" => retries[d] = attempts[d]
        /\ (pc[d] = "done" /\ result[d] # "True") => retries[d] >= max_retries

\* C9: once the KeyboardInterrupt was raised in run, no dork that had not
\* started is handed to a worker.
C9_NoDispatchAfterCancel ==
    [][cancelled => \A d \in DorkIds :
                       pc[d] \in {"unsubmitted", "queued"} => pc'[d] = pc[d]]_vars

\* C10: the display_stats loop, once started, eventually ends, also when the
\* run is cancelled.
C10_ReporterTerminates ==
    /\ (stats_pc = "render") ~> (stats_pc = "done")
    /\ cancelled ~> (stats_pc = "done")

\* C11: every change of the shared stats is made under the lock, so the
\* check of line 308 and the append of line 309 of two workers never
\* interleave: no engine is twice in working_engines.
C11_NoDuplicateEngine ==
    \A i, j \in 1..Len(working_engines) :
        i # j => working_engines[i] # working_engines[j]

RECURSIVE SeqRun(_, _, _, _)
\* process_dork run by itself on the answers tr of the executor, from
\* attempt i on with r retries used and n links in all_links: how it ends,
\* the attempts it makes and the links it holds
SeqRun(tr, i, r, n) ==
    IF r >= max_retries THEN [result |-> "False", used |-> i - 1, links |-> n]
    ELSE IF i > Len(tr) THEN [result |-> "none", used |-> i - 1, links |-> n]
    ELSE LET kind == tr[i][1]
             m == n + tr[i][2]
         IN  CASE kind = "nodriver" -> SeqRun(tr, i + 1, r + 1, n)
               [] kind = "returned" ->
                    IF m > 0 THEN [result |-> "True", used |-> i, links |-> m]
                    ELSE SeqRun(tr, i + 1, r + 1, m)
               [] kind = "raised" -> SeqRun(tr, i + 1, r + 1, m)
               [] kind = "raised_twice" ->
                    [result |-> "exception", used |-> i, links |-> m]

\* the outcome of dork d when its attempts are made one after the other
Sequential(d) == SeqRun(trace[d], 1, 0, 0)

RECURSIVE SumSequentialLinks(_)
SumSequentialLinks(S) ==
    IF S = {} THEN 0
    ELSE LET d == CHOOSE x \in S : TRUE
         IN  Sequential(d).links + SumSequentialLinks(S \ {d})

\* every call of process_dork has ended
AllCallsEnded == Dorks # {} /\ \A d \in Dorks : pc[d] = "done"

\* C12: with a deterministic executor the outcome of a dork, and the final
\* counters, are those of the dork's attempts made one after the other,
\* whatever the number of workers and their interleaving: a finished call
\* ended as the sequential run on the same answers ends, having used all of
\* them, and when all calls have ended the counters are the sequential ones.
C12_SameAsSequential ==
    /\ \A d \in DorkIds :
        pc[d] = "done" =>
            /\ Sequential(d).result = result[d]
            /\ Sequential(d).used = Len(trace[d])
            /\ Sequential(d).links = Len(all_links[d])
    /\ AllCallsEnded =>
        /\ checked_dorks = Cardinality({d \in Dorks : Sequential(d).result = "True"})
        /\ error_dorks = Cardinality({d \in Dorks : Sequential(d).result = "False"})
        /\ urls_parsed = SumSequentialLinks(Dorks)

\* two workers ran two dorks at the same time: one succeeded on its second
\* attempt, the other used up its retries
C12_Witness ==
    /\ threads = 2
    /\ AllCallsEnded
    /\ \E d, e \in Dorks :
        /\ result[d] = "True" /\ Len(trace[d]) = 2
        /\ result[e] = "False" /\ Len(trace[e]) = max_retries
        /\ InResults(d) /\ InErrors(e)

\* C13: when threads < 1 was entered, run fails before any work starts: no
\* attempt is made, no call of process_dork and no display_stats thread is
\* started, and the files of the previous run are left as they were.
C13_FailFast ==
    (main_pc \in {"start_stats", "executor", "crashed"} /\ threads < 1) =>
        /\ \A d \in DorkIds : pc[d] = "unsubmitted" /\ attempts[d] = 0
        /\ stats_pc = "idle"
        /\ results_file = OldFile
        /\ errors_file = OldFile
        /\ retries_file = OldFile

\* the estimate C14 describes, elapsed seconds after the start
ClaimedEstimate(elapsed) ==
    IF Completed = 0
    THEN NoEstimate
    ELSE Seconds(((total_dorks - Completed) * elapsed) \div Completed)

\* C14: the estimate display_stats prints is unknown exactly when
\* completed == 0 and else (elapsed / completed) * (total - completed),
\* where completed counts the dorks that succeeded or failed.
C14_EstimateFromCompleted ==
    [][(stats_pc = "render" /\ stats_pc' = "sleep") =>
         \E elapsed \in 1..MaxElapsed : est_time_str' = ClaimedEstimate(elapsed)]_vars

\* dorks whose call of process_dork has started
Started == {d \in DorkIds : pc[d] \notin {"unsubmitted", "queued"}}

\* C15: calls start in the order of submission: a dork has started (and so
\* has made an attempt) only if every dork submitted before it has started.
C15_FirstSubmittedFirstServed ==
    \A d \in DorkIds :
        (d \in Started \/ attempts[d] > 0) =>
            \A e \in DorkIds : e < d => e \in Started

\* one worker: the second dork waited in the queue and started after the
\* first had ended
C15_Witness ==
    /\ threads = 1
    /\ Len(dorks) = 2
    /\ pc[1] = "done"
    /\ 2 \in InFlight
    /\ attempts[2] > 0

\* C16: with no dorks loaded run returns at once: no call of process_dork
\* is submitted or started, the display_stats thread is not started, no
\* executor is created, and the statistics (total_dorks = 0) and the files of
\* a previous run are as they were.
C16_EmptyListReturns ==
    (main_pc # "load" /\ dorks = <<>>) =>
        /\ main_pc = "returned"
        /\ \A d \in DorkIds : pc[d] = "unsubmitted" /\ attempts[d] = 0
        /\ queue = <<>>
        /\ stats_pc = "idle"
        /\ total_dorks = 0
        /\ checked_dorks = 0 /\ error_dorks = 0 /\ urls_parsed = 0
        /\ retry_dorks = 0 /\ working_engines = <<>>
        /\ results_file = OldFile
        /\ errors_file = OldFile
        /\ retries_file = OldFile

\* run has returned because no dorks were loaded
C16_Witness == main_pc = "returned" /\ dorks = <<>>

\* the number of entries of the work queue that are calls for dork d
TimesQueued(d) == Cardinality({i \in 1..Len(queue) : queue[i] = d})

\* C17: the number of calls of process_dork started and not yet ended is at
\* most the number of worker threads, and no call is taken by two workers:
\* a dork is in the work queue once while it waits and never once started.
C17_AtMostWorkerCount ==
    /\ Cardinality(InFlight) <= threads
    /\ \A d \in DorkIds : TimesQueued(d) = IF pc[d] = "queued" THEN 1 ELSE 0

\* every worker is busy and a call waits in the queue
C17_Witness ==
    /\ threads >= 1
    /\ Cardinality(InFlight) = threads
    /\ queue # <<>>
    /\ \E d \in InFlight : attempts[d] > 0

\* the engines passed to get_search_results (line 312) so far in the attempt
\* of dork d that is under way
Queried(d) ==
    IF pc[d] = "count" \/ (pc[d] \in {"fetch", "quit"} /\ page[d] > 0)
    THEN <<Engine>>
    ELSE <<>>

\* C18: an attempt whose query of the first engine (google) gave no links
\* has queried a later engine (bing, duckduckgo or yahoo) by the time it
\* leaves the engine loop. Stated for the first attempt of a call, where
\* all_links holds the links of that attempt only.
C18_LaterEngineQueried ==
    \A d \in DorkIds :
        (pc[d] = "quit" /\ pages > 0 /\ attempts[d] = 1 /\ all_links[d] = <<>>) =>
            \E i \in 2..Len(search_engines) : InList(search_engines[i], Queried(d))

\* C19: under fair scheduling every submitted call of process_dork ends in a
\* terminal outcome, True (success) or False (failure), and run finishes:
\* no call retries for ever.
C19_EveryTaskTerminates ==
    /\ \A d \in DorkIds :
           (pc[d] = "queued") ~> (pc[d] = "done" /\ result[d] \in {"True", "False"})
    /\ (main_pc = "submit") ~> (main_pc = "returned")

\* the positions of the results file that hold a line of dork d
LinesOf(d) == {i \in 1..Len(results_file) : results_file[i] \in {Header(d), Link(d)}}

\* C20: the lines of a dork in the results file are one contiguous block, the
\* header first and then its links, complete once the call has returned True;
\* a worker writes to the results file or to the errors file only while it
\* holds the lock.
C20_BlocksContiguous ==
    \A d \in DorkIds :
        /\ \A i, k \in LinesOf(d) : \A j \in i..k : j \in LinesOf(d)
        /\ \A i \in LinesOf(d) : (results_file[i] = Header(d)) <=> (i - 1 \notin LinesOf(d))
        /\ Cardinality(LinesOf(d)) = written[d]
        /\ result[d] = "True" => Cardinality(LinesOf(d)) = Len(Block(d))
        /\ pc[d] \in {"save_write", "save_count", "fail_record"} => lock = d

\* a worker has written part of its block while another worker, with links
\* to save, waits for the lock
C20_Witness ==
    \E d, e \in DorkIds :
        /\ d # e
        /\ pc[d] = "save_write"
        /\ written[d] >= 1
        /\ pc[e] = "save_lock"

\* C21 as stated: no step of a run changes stats['retry_dorks'] or the
\* retries file: the counter is 0 and the file is as it was before the run.
C21_NeverChanged ==
    /\ retry_dorks = 0
    /\ retries_file = OldFile

\* C21: stats['retry_dorks'] stays 0 however many attempts are retried, and
\* the retries file is only ever removed (lines 415-417, once dorks were
\* loaded and the parameters read): nothing is written to it.
C21_NeverWritten ==
    /\ retry_dorks = 0
    /\ retries_file = IF main_pc \in {"load", "config"} \/ dorks = <<>>
                      THEN OldFile ELSE <<>>

\* run has returned after a call used up all its retries
C21_Witness ==
    /\ main_pc = "returned"
    /\ \E d \in Dorks : result[d] = "False" /\ retries[d] = max_retries
    /\ retry_dorks = 0
    /\ retries_file = <<>>

====
